---- MODULE Spec2Model ----
(***************************************************************************)
(* SwiftRemit: a Soroban remittance contract (src/src/lib.rs).             *)
(*                                                                         *)
(* Every entry point of the contract is a pure operator from the storage   *)
(* it is invoked on (and its arguments) to an outcome: the error it        *)
(* returns, the storage as the handler left it at its return, the events   *)
(* it published, the token transfers it made and its return value.  The    *)
(* action of an entry point hands that outcome to the host's invocation    *)
(* envelope, which keeps the writes of a call that returned Ok and         *)
(* discards the writes of a call that returned Err or trapped.             *)
(***************************************************************************)
EXTENDS Integers, Sequences, FiniteSets, TLC

\* ---------------------------------------------------------------- bounds

\* Largest number of remittances created in one behaviour.
MaxRemittances == 2

\* Longest entry list handed to batch_settle.
MaxBatch == 2

\* Largest ledger timestamp.
MaxTime == 1

\* i128::MAX, scaled down from 2^127 - 1 to 2^16 - 1 so that the checked
\* arithmetic of the contract overflows on inputs within TLC's integers.
I128_MAX == 65535

\* ------------------------------------------------------ program constants

\* The basis-point denominator and the largest fee rate (lib.rs:34, 77, 111).
BPS_DENOM == 10000

\* events.rs:3
SCHEMA_VERSION == 1

\* ------------------------------------------------------------ input sets

\* Principals.  "admin" administers, "alice" sends, "bob" is the payout agent.
Address == {"admin", "alice", "bob"}

\* The contract's own address (env.current_contract_address()).
CONTRACT == "contract"

\* Amounts handed to create_remittance.
Amounts == {0, 13}

\* Fee rates handed to initialize and update_fee.
FeeRates == {2500, 10000, 10001}

\* Option<T>: None is the empty sequence, Some(v) the one-element sequence.
None == << >>

Some(v) == << v >>

IsSome(o) == Len(o) = 1

Unwrap(o) == o[1]

\* Expiries handed to create_remittance.
Expiries == {None, Some(0)}

\* ------------------------------------------------------------------ state

VARIABLES
    admin,               \* Option<Address>: the admin key of the store
    usdc_token,          \* Option<Address>: the token key
    platform_fee_bps,    \* Option<u32>: the fee rate key
    remittance_counter,  \* Option<u64>: the counter key
    accumulated_fees,    \* Option<i128>: the fee pool key
    agent_registered,    \* the agents whose registered flag is true
    remittances,         \* id -> Remittance
    settlement_hash,     \* the ids whose settlement marker is present
    custody,             \* the token balance of the contract
    timestamp,           \* env.ledger().timestamp()
    history,             \* id -> what has been done for the id so far
    last                 \* the last invocation and its outcome

vars == << admin, usdc_token, platform_fee_bps, remittance_counter,
           accumulated_fees, agent_registered, remittances, settlement_hash,
           custody, timestamp, history, last >>

\* The storage (and the token balance and the ledger time) a handler runs on.
Storage ==
    [ admin |-> admin, usdc_token |-> usdc_token,
      platform_fee_bps |-> platform_fee_bps,
      remittance_counter |-> remittance_counter,
      accumulated_fees |-> accumulated_fees,
      agent_registered |-> agent_registered,
      remittances |-> remittances, settlement_hash |-> settlement_hash,
      custody |-> custody, timestamp |-> timestamp, history |-> history ]

\* ------------------------------------------------------- checked arithmetic

I128_MIN == -I128_MAX - 1

InI128(x) == I128_MIN <= x /\ x <= I128_MAX

checked_mul(a, b) == IF InI128(a * b) THEN Some(a * b) ELSE None

\* i128 division truncates toward zero.
checked_div(a, b) ==
    IF b = 0 THEN None
    ELSE LET q == IF (a >= 0) = (b > 0)
                  THEN (IF a >= 0 THEN a ELSE -a) \div (IF b > 0 THEN b ELSE -b)
                  ELSE -((IF a >= 0 THEN a ELSE -a) \div (IF b > 0 THEN b ELSE -b))
         IN IF InI128(q) THEN Some(q) ELSE None

checked_add(a, b) == IF InI128(a + b) THEN Some(a + b) ELSE None

checked_sub(a, b) == IF InI128(a - b) THEN Some(a - b) ELSE None

\* ------------------------------------------------------------ the store

has_admin(st) == IsSome(st.admin)

is_agent_registered(st, agent) == agent \in st.agent_registered

set_agent_registered(st, agent, flag) ==
    [st EXCEPT !.agent_registered =
        IF flag THEN @ \cup {agent} ELSE @ \ {agent}]

has_settlement_hash(st, id) == id \in st.settlement_hash

set_settlement_hash(st, id) ==
    [st EXCEPT !.settlement_hash = @ \cup {id}]

has_remittance(st, id) == id \in DOMAIN st.remittances

set_remittance(st, id, r) ==
    [st EXCEPT !.remittances =
        [k \in (DOMAIN @) \cup {id} |-> IF k = id THEN r ELSE @[k]]]

set_accumulated_fees(st, fees) == [st EXCEPT !.accumulated_fees = Some(fees)]

\* validate_address: every Address of the host is well formed.
validate_address(a) == a \in Address

\* ------------------------------------------------------------ the token

\* A token transfer (from, to, amount) the contract asked for.
Transfer(from, to, amount) == [from |-> from, to |-> to, amount |-> amount]

\* token.transfer out of custody traps on a negative amount and on a
\* balance that does not cover the amount.
CanPay(st, amount) == amount >= 0 /\ st.custody >= amount

pay_out(st, amount) == [st EXCEPT !.custody = @ - amount]

\* token.transfer into custody traps when the sender's balance does not
\* cover the amount (funded = FALSE) and when the balance would overflow.
CanDeposit(st, amount, funded) ==
    amount >= 0 /\ funded /\ st.custody + amount <= I128_MAX

deposit(st, amount) == [st EXCEPT !.custody = @ + amount]

\* ------------------------------------------------------ history of an id

NoHistory == [payouts |-> 0, fee_credits |-> 0, refunds |-> 0, fee_bps |-> 0]

\* ------------------------------------------------------------- outcomes

\* The outcome of a handler: its error ("Ok" on success, "Trap" when it
\* panicked), the storage at its return, its events, transfers and value.
Outcome(err, st, events, transfers, ret) ==
    [err |-> err, st |-> st, events |-> events, transfers |-> transfers,
     ret |-> ret]

Ok(st, events, transfers, ret) == Outcome("Ok", st, events, transfers, ret)

Err(e, st, events, transfers) == Outcome(e, st, events, transfers, None)

\* --------------------------------------------------------------- events

emit_remittance_created(st, id, sender, agent, token, amount, fee) ==
    [topic |-> "remit.created", version |-> SCHEMA_VERSION,
     timestamp |-> st.timestamp, remittance_id |-> id, sender |-> sender,
     agent |-> agent, token |-> token, amount |-> amount, fee |-> fee]

emit_remittance_completed(st, id, sender, agent, token, amount) ==
    [topic |-> "remit.complete", version |-> SCHEMA_VERSION,
     timestamp |-> st.timestamp, remittance_id |-> id, sender |-> sender,
     agent |-> agent, token |-> token, amount |-> amount]

emit_remittance_cancelled(st, id, sender, agent, token, amount) ==
    [topic |-> "remit.cancel", version |-> SCHEMA_VERSION,
     timestamp |-> st.timestamp, remittance_id |-> id, sender |-> sender,
     agent |-> agent, token |-> token, amount |-> amount]

emit_batch_settlement_started(st, batch_size) ==
    [topic |-> "batch.start", version |-> SCHEMA_VERSION,
     timestamp |-> st.timestamp, batch_size |-> batch_size]

emit_batch_settlement_completed(st, total_count, success_count, total_payout) ==
    [topic |-> "batch.complete", version |-> SCHEMA_VERSION,
     timestamp |-> st.timestamp, total_count |-> total_count,
     success_count |-> success_count, total_payout |-> total_payout]

emit_batch_settlement_failed(st, failed_at_index, id, reason) ==
    [topic |-> "batch.failed", version |-> SCHEMA_VERSION,
     timestamp |-> st.timestamp, failed_at_index |-> failed_at_index,
     remittance_id |-> id, reason |-> reason]

emit_agent_registered(st, agent, by) ==
    [topic |-> "agent.register", version |-> SCHEMA_VERSION,
     timestamp |-> st.timestamp, agent |-> agent, admin |-> by]

emit_agent_removed(st, agent, by) ==
    [topic |-> "agent.removed", version |-> SCHEMA_VERSION,
     timestamp |-> st.timestamp, agent |-> agent, admin |-> by]

emit_fee_updated(st, by, old_fee_bps, new_fee_bps) ==
    [topic |-> "fee.updated", version |-> SCHEMA_VERSION,
     timestamp |-> st.timestamp, admin |-> by, old_fee_bps |-> old_fee_bps,
     new_fee_bps |-> new_fee_bps]

emit_fees_withdrawn(st, by, recipient, token, amount) ==
    [topic |-> "fee.withdraw", version |-> SCHEMA_VERSION,
     timestamp |-> st.timestamp, admin |-> by, recipient |-> recipient,
     token |-> token, amount |-> amount]

\* -------------------------------------------------------------- handlers
\* Each handler takes the storage st, the principal whose authorization the
\* invocation carries (caller) and the arguments of the entry point.

\* p.require_auth(): passes when the invocation carries p's authorization.
require_auth(caller, p) == caller = p

\* (Variant: the has_admin check left out.)
initialize_Again(st, a, token, fee_bps) ==
    IF fee_bps > BPS_DENOM THEN Err("InvalidFeeBps", st, << >>, << >>)
    ELSE Ok([st EXCEPT !.admin = Some(a), !.usdc_token = Some(token),
                       !.platform_fee_bps = Some(fee_bps),
                       !.remittance_counter = Some(0),
                       !.accumulated_fees = Some(0)],
            << >>, << >>, None)

initialize(st, a, token, fee_bps) ==
    IF has_admin(st) THEN Err("AlreadyInitialized", st, << >>, << >>)
    ELSE IF fee_bps > BPS_DENOM THEN Err("InvalidFeeBps", st, << >>, << >>)
    ELSE Ok([st EXCEPT !.admin = Some(a), !.usdc_token = Some(token),
                       !.platform_fee_bps = Some(fee_bps),
                       !.remittance_counter = Some(0),
                       !.accumulated_fees = Some(0)],
            << >>, << >>, None)

register_agent(st, caller, agent) ==
    IF ~IsSome(st.admin) THEN Err("NotInitialized", st, << >>, << >>)
    ELSE IF ~require_auth(caller, Unwrap(st.admin))
    THEN Err("Trap", st, << >>, << >>)
    ELSE Ok(set_agent_registered(st, agent, TRUE),
            << emit_agent_registered(st, agent, Unwrap(st.admin)) >>,
            << >>, None)

remove_agent(st, caller, agent) ==
    IF ~IsSome(st.admin) THEN Err("NotInitialized", st, << >>, << >>)
    ELSE IF ~require_auth(caller, Unwrap(st.admin))
    THEN Err("Trap", st, << >>, << >>)
    ELSE Ok(set_agent_registered(st, agent, FALSE),
            << emit_agent_removed(st, agent, Unwrap(st.admin)) >>,
            << >>, None)

\* (Variant: the new rate also applied to the fee of every Pending record.)
update_fee_Refreeze(st, caller, fee_bps) ==
    IF ~IsSome(st.admin) THEN Err("NotInitialized", st, << >>, << >>)
    ELSE IF ~require_auth(caller, Unwrap(st.admin))
    THEN Err("Trap", st, << >>, << >>)
    ELSE IF fee_bps > BPS_DENOM THEN Err("InvalidFeeBps", st, << >>, << >>)
    ELSE LET rs == st.remittances
             st1 == [st EXCEPT
                       !.platform_fee_bps = Some(fee_bps),
                       !.remittances =
                          [id \in DOMAIN rs |->
                             IF rs[id].status = "Pending"
                             THEN [rs[id] EXCEPT
                                     !.fee = (rs[id].amount * fee_bps)
                                                \div BPS_DENOM]
                             ELSE rs[id]]]
         IN Ok(st1,
               << emit_fee_updated(st1, Unwrap(st.admin), fee_bps, fee_bps) >>,
               << >>, None)

\* The old rate of the event is read after the new rate is stored.
update_fee(st, caller, fee_bps) ==
    IF ~IsSome(st.admin) THEN Err("NotInitialized", st, << >>, << >>)
    ELSE IF ~require_auth(caller, Unwrap(st.admin))
    THEN Err("Trap", st, << >>, << >>)
    ELSE IF fee_bps > BPS_DENOM THEN Err("InvalidFeeBps", st, << >>, << >>)
    ELSE LET st1 == [st EXCEPT !.platform_fee_bps = Some(fee_bps)]
             old_fee == Unwrap(st1.platform_fee_bps)
         IN Ok(st1,
               << emit_fee_updated(st1, Unwrap(st.admin), old_fee, fee_bps) >>,
               << >>, None)

\* amount * fee_bps / 10000, or None on overflow.
\* (Variant: the product taken with plain multiplication, unchecked.)
compute_fee_Unchecked(amount, fee_bps) ==
    checked_div(amount * fee_bps, BPS_DENOM)

compute_fee(amount, fee_bps) ==
    LET product == checked_mul(amount, fee_bps)
    IN IF ~IsSome(product) THEN None
       ELSE checked_div(Unwrap(product), BPS_DENOM)

\* The record create_remittance stores.
\* (Variant: the id field taken from the counter before its increment.)
NewRemittance_StaleId(id, sender, agent, amount, fee, expiry) ==
    [id |-> id - 1, sender |-> sender, agent |-> agent, amount |-> amount,
     fee |-> fee, status |-> "Pending", expiry |-> expiry]

NewRemittance(id, sender, agent, amount, fee, expiry) ==
    [id |-> id, sender |-> sender, agent |-> agent, amount |-> amount,
     fee |-> fee, status |-> "Pending", expiry |-> expiry]

\* amount <= 0, negated.
\* (Variant: the comparison taken as amount < 0.)
valid_amount_NonNegative(amount) == amount >= 0

valid_amount(amount) == amount > 0

\* funded: whether the sender's token balance covers the amount.
create_remittance(st, caller, sender, agent, amount, expiry, funded) ==
    IF ~require_auth(caller, sender) THEN Err("Trap", st, << >>, << >>)
    ELSE IF ~valid_amount(amount) THEN Err("InvalidAmount", st, << >>, << >>)
    ELSE IF ~is_agent_registered(st, agent)
    THEN Err("AgentNotRegistered", st, << >>, << >>)
    ELSE IF ~IsSome(st.platform_fee_bps)
    THEN Err("NotInitialized", st, << >>, << >>)
    ELSE LET fee_bps == Unwrap(st.platform_fee_bps)
             fee == compute_fee(amount, fee_bps)
         IN
         IF ~IsSome(fee) THEN Err("Overflow", st, << >>, << >>)
         ELSE IF ~IsSome(st.usdc_token)
         THEN Err("NotInitialized", st, << >>, << >>)
         ELSE IF ~CanDeposit(st, amount, funded)
         THEN Err("Trap", st, << >>, << >>)
         ELSE LET st1 == deposit(st, amount)
                  moved == << Transfer(sender, CONTRACT, amount) >>
              IN
              IF ~IsSome(st1.remittance_counter)
              THEN Err("NotInitialized", st1, << >>, moved)
              ELSE LET id == Unwrap(st1.remittance_counter) + 1
                       r == NewRemittance(id, sender, agent, amount,
                                          Unwrap(fee), expiry)
                       st2 == set_remittance(st1, id, r)
                       st3 == [st2 EXCEPT
                                 !.remittance_counter = Some(id),
                                 !.history =
                                    [k \in (DOMAIN @) \cup {id} |->
                                       IF k = id
                                       THEN [NoHistory EXCEPT
                                               !.fee_bps = fee_bps]
                                       ELSE @[k]]]
                   IN Ok(st3,
                         << emit_remittance_created(st3, id, sender, agent,
                               Unwrap(st.usdc_token), amount, Unwrap(fee)) >>,
                         moved, Some(id))

\* Whether a remittance with this expiry has expired at ledger time now.
\* (Variant: the comparison taken as >=.)
Expired_AtExpiry(expiry, now) == IsSome(expiry) /\ now >= Unwrap(expiry)

Expired(expiry, now) == IsSome(expiry) /\ now > Unwrap(expiry)

\* remittance.status != RemittanceStatus::Pending, negated.
\* (Variant: a test that lets a Completed record through.)
is_pending_NotCancelled(r) == r.status # "Cancelled"

is_pending(r) == r.status = "Pending"

\* remittance.amount.checked_sub(remittance.fee)
\* (Variant: the fee not subtracted.)
payout_of_Gross(r) == Some(r.amount)

payout_of(r) == checked_sub(r.amount, r.fee)

\* The amount cancel_remittance hands back to the sender.
\* (Variant: the fee withheld from the refund.)
refund_of_Net(r) == r.amount - r.fee

refund_of(r) == r.amount

\* The storage after one payout of the record r: the transfer out of
\* custody, the fee added to the pool, the status and the marker.
credit_fee(st, id, new_fees) ==
    [set_accumulated_fees(st, new_fees) EXCEPT
        !.history[id].fee_credits = @ + 1]

paid(st, id, amount) ==
    [pay_out(st, amount) EXCEPT !.history[id].payouts = @ + 1]

\* (Variant: the status set and the marker not.)
complete_NoMarker(st, id) ==
    set_remittance(st, id, [st.remittances[id] EXCEPT !.status = "Completed"])

complete(st, id) ==
    set_settlement_hash(
        set_remittance(st, id,
            [st.remittances[id] EXCEPT !.status = "Completed"]), id)

confirm_payout(st, caller, id) ==
    IF ~has_remittance(st, id)
    THEN Err("RemittanceNotFound", st, << >>, << >>)
    ELSE LET r == st.remittances[id] IN
    IF ~require_auth(caller, r.agent) THEN Err("Trap", st, << >>, << >>)
    ELSE IF ~is_pending(r) THEN Err("InvalidStatus", st, << >>, << >>)
    ELSE IF has_settlement_hash(st, id)
    THEN Err("DuplicateSettlement", st, << >>, << >>)
    ELSE IF Expired(r.expiry, st.timestamp)
    THEN Err("SettlementExpired", st, << >>, << >>)
    ELSE IF ~validate_address(r.agent)
    THEN Err("InvalidAddress", st, << >>, << >>)
    ELSE LET payout_amount == payout_of(r) IN
    IF ~IsSome(payout_amount) THEN Err("Overflow", st, << >>, << >>)
    ELSE IF ~IsSome(st.usdc_token)
    THEN Err("NotInitialized", st, << >>, << >>)
    ELSE IF ~CanPay(st, Unwrap(payout_amount))
    THEN Err("Trap", st, << >>, << >>)
    ELSE LET st1 == paid(st, id, Unwrap(payout_amount))
             moved == << Transfer(CONTRACT, r.agent, Unwrap(payout_amount)) >>
         IN
    IF ~IsSome(st1.accumulated_fees)
    THEN Err("NotInitialized", st1, << >>, moved)
    ELSE LET new_fees == checked_add(Unwrap(st1.accumulated_fees), r.fee) IN
    IF ~IsSome(new_fees) THEN Err("Overflow", st1, << >>, moved)
    ELSE LET st2 == credit_fee(st1, id, Unwrap(new_fees))
             st3 == complete(st2, id)
         IN Ok(st3,
               << emit_remittance_completed(st3, id, r.sender, r.agent,
                     Unwrap(st.usdc_token), Unwrap(payout_amount)) >>,
               moved, None)

cancel_remittance(st, caller, id) ==
    IF ~has_remittance(st, id)
    THEN Err("RemittanceNotFound", st, << >>, << >>)
    ELSE LET r == st.remittances[id] IN
    IF ~require_auth(caller, r.sender) THEN Err("Trap", st, << >>, << >>)
    ELSE IF ~is_pending(r) THEN Err("InvalidStatus", st, << >>, << >>)
    ELSE IF ~IsSome(st.usdc_token)
    THEN Err("NotInitialized", st, << >>, << >>)
    ELSE IF ~CanPay(st, refund_of(r)) THEN Err("Trap", st, << >>, << >>)
    ELSE LET st1 == [pay_out(st, refund_of(r)) EXCEPT
                        !.history[id].refunds = @ + 1]
             st2 == set_remittance(st1, id, [r EXCEPT !.status = "Cancelled"])
         IN Ok(st2,
               << emit_remittance_cancelled(st2, id, r.sender, r.agent,
                     Unwrap(st.usdc_token), refund_of(r)) >>,
               << Transfer(CONTRACT, r.sender, refund_of(r)) >>, None)

withdraw_fees(st, caller, to) ==
    IF ~IsSome(st.admin) THEN Err("NotInitialized", st, << >>, << >>)
    ELSE IF ~require_auth(caller, Unwrap(st.admin))
    THEN Err("Trap", st, << >>, << >>)
    ELSE IF ~validate_address(to) THEN Err("InvalidAddress", st, << >>, << >>)
    ELSE IF ~IsSome(st.accumulated_fees)
    THEN Err("NotInitialized", st, << >>, << >>)
    ELSE LET fees == Unwrap(st.accumulated_fees) IN
    IF fees <= 0 THEN Err("NoFeesToWithdraw", st, << >>, << >>)
    ELSE IF ~IsSome(st.usdc_token)
    THEN Err("NotInitialized", st, << >>, << >>)
    ELSE IF ~CanPay(st, fees) THEN Err("Trap", st, << >>, << >>)
    ELSE LET st1 == set_accumulated_fees(pay_out(st, fees), 0)
         IN Ok(st1,
               << emit_fees_withdrawn(st1, Unwrap(st.admin), to,
                     Unwrap(st.usdc_token), fees) >>,
               << Transfer(CONTRACT, to, fees) >>, None)

\* ----------------------------------------------------------- batch_settle

\* The reason codes of the batch.failed event.
REASON_NOT_FOUND == 6

REASON_INVALID_STATUS == 7

REASON_OVERFLOW == 8

REASON_INVALID_ADDRESS == 10

REASON_EXPIRED == 11

REASON_DUPLICATE == 12

BatchSettleEntry(id) == [remittance_id |-> id]

ValidatedSettlement(id, agent, payout_amount, fee, sender) ==
    [remittance_id |-> id, agent |-> agent, payout_amount |-> payout_amount,
     fee |-> fee, sender |-> sender]

BatchSettleResult(id, success, payout_amount) ==
    [remittance_id |-> id, success |-> success, payout_amount |-> payout_amount]

\* The reason code the entry id fails validation with, or 0 when it passes.
\* (Variant: the expiry tested before the status.)
validate_entry_ExpiryFirst(st, id) ==
    IF ~has_remittance(st, id) THEN REASON_NOT_FOUND
    ELSE LET r == st.remittances[id] IN
    IF Expired(r.expiry, st.timestamp) THEN REASON_EXPIRED
    ELSE IF ~is_pending(r) THEN REASON_INVALID_STATUS
    ELSE IF has_settlement_hash(st, id) THEN REASON_DUPLICATE
    ELSE IF ~validate_address(r.agent) THEN REASON_INVALID_ADDRESS
    ELSE IF ~IsSome(payout_of(r)) THEN REASON_OVERFLOW
    ELSE 0

validate_entry(st, id) ==
    IF ~has_remittance(st, id) THEN REASON_NOT_FOUND
    ELSE LET r == st.remittances[id] IN
    IF ~is_pending(r) THEN REASON_INVALID_STATUS
    ELSE IF has_settlement_hash(st, id) THEN REASON_DUPLICATE
    ELSE IF Expired(r.expiry, st.timestamp) THEN REASON_EXPIRED
    ELSE IF ~validate_address(r.agent) THEN REASON_INVALID_ADDRESS
    ELSE IF ~IsSome(payout_of(r)) THEN REASON_OVERFLOW
    ELSE 0

\* Phase 1 from entry i on (i counts from 1; the event's index from 0):
\* the first failure, or the validated settlements.
RECURSIVE validate_all(_, _, _, _)
validate_all(st, settlements, i, validated) ==
    IF i > Len(settlements)
    THEN [failed |-> FALSE, index |-> 0, id |-> 0, reason |-> 0,
          validated |-> validated]
    ELSE LET id == settlements[i].remittance_id
             reason == validate_entry(st, id)
         IN IF reason # 0
            THEN [failed |-> TRUE, index |-> i - 1, id |-> id,
                  reason |-> reason, validated |-> validated]
            ELSE LET r == st.remittances[id]
                 IN validate_all(st, settlements, i + 1,
                       Append(validated,
                          ValidatedSettlement(id, r.agent,
                             Unwrap(payout_of(r)),
                             r.fee, r.sender)))

\* Phase 2 from validated settlement i on.  acc carries the events and
\* transfers so far, the results, the success count and the total payout.
RECURSIVE execute_all(_, _, _, _, _)
execute_all(st, token, validated, i, acc) ==
    IF i > Len(validated) THEN Ok(st, acc.events, acc.transfers, acc)
    ELSE LET s == validated[i] IN
    IF ~CanPay(st, s.payout_amount)
    THEN Err("Trap", st, acc.events, acc.transfers)
    ELSE LET st1 == paid(st, s.remittance_id, s.payout_amount)
             moved == Append(acc.transfers,
                             Transfer(CONTRACT, s.agent, s.payout_amount))
         IN
    IF ~IsSome(st1.accumulated_fees)
    THEN Err("NotInitialized", st1, acc.events, moved)
    ELSE LET new_fees == checked_add(Unwrap(st1.accumulated_fees), s.fee) IN
    IF ~IsSome(new_fees) THEN Err("Overflow", st1, acc.events, moved)
    ELSE LET st2 == credit_fee(st1, s.remittance_id, Unwrap(new_fees)) IN
    IF ~has_remittance(st2, s.remittance_id)
    THEN Err("RemittanceNotFound", st2, acc.events, moved)
    ELSE LET st3 == complete(st2, s.remittance_id)
             events == Append(acc.events,
                          emit_remittance_completed(st3, s.remittance_id,
                             s.sender, s.agent, token, s.payout_amount))
             total == checked_add(acc.total_payout, s.payout_amount)
         IN
    IF ~IsSome(total) THEN Err("Overflow", st3, events, moved)
    ELSE execute_all(st3, token, validated, i + 1,
            [events |-> events, transfers |-> moved,
             results |-> Append(acc.results,
                            BatchSettleResult(s.remittance_id, TRUE,
                                              s.payout_amount)),
             success_count |-> acc.success_count + 1,
             total_payout |-> Unwrap(total)])

\* settlements.is_empty()
\* (Variant: the test left out.)
is_empty_Unchecked(settlements) == FALSE

is_empty(settlements) == Len(settlements) = 0

\* batch_settle asks for no authorization: caller is whoever invokes it.
batch_settle(st, caller, settlements) ==
    IF is_empty(settlements) THEN Err("BatchEmpty", st, << >>, << >>)
    ELSE LET batch_size == Len(settlements)
             started == << emit_batch_settlement_started(st, batch_size) >>
         IN
    IF ~IsSome(st.usdc_token) THEN Err("NotInitialized", st, started, << >>)
    ELSE LET phase1 == validate_all(st, settlements, 1, << >>) IN
    IF phase1.failed
    THEN Err("BatchValidationFailed", st,
             Append(started,
                emit_batch_settlement_failed(st, phase1.index, phase1.id,
                                             phase1.reason)),
             << >>)
    ELSE LET phase2 == execute_all(st, Unwrap(st.usdc_token),
                          phase1.validated, 1,
                          [events |-> started, transfers |-> << >>,
                           results |-> << >>, success_count |-> 0,
                           total_payout |-> 0])
         IN
    IF phase2.err # "Ok" THEN phase2
    ELSE Ok(phase2.st,
            Append(phase2.events,
               emit_batch_settlement_completed(phase2.st, batch_size,
                  phase2.ret.success_count, phase2.ret.total_payout)),
            phase2.transfers, phase2.ret.results)

\* ------------------------------------------------- the invocation envelope

\* No invocation is in progress or being returned.
Idle ==
    [op |-> "idle", caller |-> CONTRACT, args |-> << >>, err |-> "Ok",
     events |-> << >>, transfers |-> << >>, ret |-> None]

\* The storage after an invocation with outcome o: the host keeps the
\* writes of a call that returned Ok and discards those of any other.
\* (Variant: a host that keeps the writes of a failed call.)
Commit_NoRollback(o) == o.st

Commit(o) == IF o.err = "Ok" THEN o.st ELSE Storage

\* One invocation of entry point op, run to completion: the storage is
\* committed or rolled back, and the invocation, its result and what it
\* published are in last until the host returns to the caller.  last.events
\* are the events the handler published before it returned, whatever its
\* result; last.transfers are the transfers that took effect.
Invoke(op, caller, args, o) ==
    LET st == Commit(o) IN
    /\ last = Idle
    /\ admin' = st.admin
    /\ usdc_token' = st.usdc_token
    /\ platform_fee_bps' = st.platform_fee_bps
    /\ remittance_counter' = st.remittance_counter
    /\ accumulated_fees' = st.accumulated_fees
    /\ agent_registered' = st.agent_registered
    /\ remittances' = st.remittances
    /\ settlement_hash' = st.settlement_hash
    /\ custody' = st.custody
    /\ history' = st.history
    /\ timestamp' = timestamp
    /\ last' = [op |-> op, caller |-> caller, args |-> args, err |-> o.err,
                events |-> o.events,
                transfers |-> IF o.err = "Ok" THEN o.transfers ELSE << >>,
                ret |-> o.ret]

\* ---------------------------------------------------------------- actions

Init ==
    /\ admin = None
    /\ usdc_token = None
    /\ platform_fee_bps = None
    /\ remittance_counter = None
    /\ accumulated_fees = None
    /\ agent_registered = {}
    /\ remittances = << >>
    /\ settlement_hash = {}
    /\ custody = 0
    /\ timestamp = 0
    /\ history = << >>
    /\ last = Idle

\* The remittance ids an invocation may name (the later ones do not exist
\* until they are created).
Ids == 1 .. MaxRemittances

\* The entry lists handed to batch_settle.
RECURSIVE SeqsUpTo(_, _)
SeqsUpTo(S, n) ==
    IF n = 0 THEN {<< >>}
    ELSE LET shorter == SeqsUpTo(S, n - 1)
         IN shorter \cup
            {Append(q, x) : q \in {t \in shorter : Len(t) = n - 1}, x \in S}

Batches == SeqsUpTo({BatchSettleEntry(id) : id \in Ids}, MaxBatch)

\* The arguments (caller, sender, amount, expiry, funded) of the
\* create_remittance invocations: the sender's own, and one by another
\* principal in the sender's name.
CreateInputs ==
    ({"alice"} \X {"alice"} \X Amounts \X Expiries \X {TRUE})
        \cup {<< "alice", "alice", 13, None, FALSE >>,
              << "alice", "alice", -13, None, TRUE >>,
              << "bob", "alice", 13, None, TRUE >>}

\* The arguments (caller, fee_bps) of the update_fee invocations.
UpdateFeeInputs == ({"admin"} \X FeeRates) \cup {<< "alice", 2500 >>}

\* The arguments (admin, token, fee_bps) of the initialize invocations: the
\* deployer's, and, of an initialized contract, another principal's that
\* name another admin and another token.
InitializeInputs ==
    ({"admin"} \X {"usdc"} \X FeeRates)
        \cup (IF IsSome(admin) THEN {<< "alice", "xlm", 5000 >>} ELSE {})

Initialize ==
    \E in \in InitializeInputs :
        Invoke("initialize", in[1], << in[1], in[2], in[3] >>,
               initialize(Storage, in[1], in[2], in[3]))

RegisterAgent ==
    \E caller \in {"admin", "alice"} :
        Invoke("register_agent", caller, << "bob" >>,
               register_agent(Storage, caller, "bob"))

RemoveAgent ==
    \E caller \in {"admin", "alice"} :
        Invoke("remove_agent", caller, << "bob" >>,
               remove_agent(Storage, caller, "bob"))

UpdateFee ==
    \E in \in UpdateFeeInputs :
        Invoke("update_fee", in[1], << in[2] >>,
               update_fee(Storage, in[1], in[2]))

CreateRemittance ==
    /\ IsSome(remittance_counter) =>
          Unwrap(remittance_counter) < MaxRemittances
    /\ \E in \in CreateInputs :
        Invoke("create_remittance", in[1],
               << in[2], "bob", in[3], in[4], in[5] >>,
               create_remittance(Storage, in[1], in[2], "bob", in[3], in[4],
                                 in[5]))

ConfirmPayout ==
    \E caller \in {"alice", "bob"}, id \in Ids :
        Invoke("confirm_payout", caller, << id >>,
               confirm_payout(Storage, caller, id))

CancelRemittance ==
    \E caller \in {"alice", "bob"}, id \in Ids :
        Invoke("cancel_remittance", caller, << id >>,
               cancel_remittance(Storage, caller, id))

WithdrawFees ==
    \E caller \in {"admin", "alice"} :
        Invoke("withdraw_fees", caller, << "admin" >>,
               withdraw_fees(Storage, caller, "admin"))

BatchSettle ==
    \E settlements \in Batches :
        Invoke("batch_settle", "alice", << settlements >>,
               batch_settle(Storage, "alice", settlements))

\* The host returns the result to the caller; the next invocation may begin.
Return ==
    /\ last # Idle
    /\ last' = Idle
    /\ UNCHANGED << admin, usdc_token, platform_fee_bps, remittance_counter,
                    accumulated_fees, agent_registered, remittances,
                    settlement_hash, custody, timestamp, history >>

\* The ledger closes and the next one has a later timestamp.
AdvanceLedger ==
    /\ last = Idle
    /\ timestamp < MaxTime
    /\ timestamp' = timestamp + 1
    /\ UNCHANGED << admin, usdc_token, platform_fee_bps, remittance_counter,
                    accumulated_fees, agent_registered, remittances,
                    settlement_hash, custody, history, last >>

Next ==
    \/ Initialize
    \/ RegisterAgent
    \/ RemoveAgent
    \/ UpdateFee
    \/ CreateRemittance
    \/ ConfirmPayout
    \/ CancelRemittance
    \/ WithdrawFees
    \/ BatchSettle
    \/ Return
    \/ AdvanceLedger

Spec == Init /\ [][Next]_vars

\* ------------------------------------------------- behaviours of two rates
\* The behaviours in which the admin moves the rate between two rates that
\* charge the amount 13 differently (a fee of 3 and a fee of 6), and
\* remittances are created and settled in between.

RateChanges == {2500, 5000}

UpdateFeeTo ==
    \E fee_bps \in RateChanges :
        Invoke("update_fee", "admin", << fee_bps >>,
               update_fee(Storage, "admin", fee_bps))

NextRates ==
    \/ Initialize
    \/ RegisterAgent
    \/ UpdateFeeTo
    \/ CreateRemittance
    \/ ConfirmPayout
    \/ BatchSettle
    \/ Return

SpecRates == Init /\ [][NextRates]_vars

\* ------------------------------------------------------------ vocabulary

\* Everything an invocation may write: the store, the token balance and
\* the history of the ids.
CoreVars ==
    << admin, usdc_token, platform_fee_bps, remittance_counter,
       accumulated_fees, agent_registered, remittances, settlement_hash,
       custody, history >>

\* The ids of an entry list, in order, and as a set.
EntryIds(settlements) ==
    [i \in 1 .. Len(settlements) |-> settlements[i].remittance_id]

EntryIdSet(settlements) ==
    {settlements[i].remittance_id : i \in 1 .. Len(settlements)}

RECURSIVE SeqSum(_)
SeqSum(q) == IF Len(q) = 0 THEN 0 ELSE q[1] + SeqSum(Tail(q))

RECURSIVE SetSum(_, _)
SetSum(f, S) ==
    IF S = {} THEN 0
    ELSE LET x == CHOOSE y \in S : TRUE IN f[x] + SetSum(f, S \ {x})

\* The topics of the events of the last invocation, in order.
Topics == [i \in 1 .. Len(last.events) |-> last.events[i].topic]

\* ------------------------------------------------------------------ C1
\* C1: after any sequence of calls, every remittance id has had at most one
\* payout transfer to its agent and its fee has been added to the fee pool
\* at most once (also when batch_settle names the same id more than once).
C1_AtMostOnePayoutPerId ==
    \A id \in DOMAIN history :
        history[id].payouts <= 1 /\ history[id].fee_credits <= 1

\* ------------------------------------------------------------------ C2
\* The principal the last invocation had to prove is the one it carried.
Proven ==
    CASE last.op \in {"register_agent", "remove_agent", "update_fee",
                      "withdraw_fees"} ->
            IsSome(admin) /\ last.caller = Unwrap(admin)
      [] last.op = "create_remittance" -> last.caller = last.args[1]
      [] last.op = "cancel_remittance" ->
            /\ last.args[1] \in DOMAIN remittances
            /\ last.caller = remittances[last.args[1]].sender
      [] last.op = "confirm_payout" ->
            /\ last.args[1] \in DOMAIN remittances
            /\ last.caller = remittances[last.args[1]].agent
      [] last.op = "batch_settle" ->
            \A id \in EntryIdSet(last.args[1]) :
                /\ id \in DOMAIN remittances
                /\ last.caller = remittances[id].agent
      [] OTHER -> TRUE

\* C2: every state-mutating operation changes state only when the caller
\* has proven the principal the operation requires (admin, sender, or the
\* agent stored on every record paid out, by confirm_payout or by
\* batch_settle); otherwise no state is written.
C2_WritesNeedPrincipal == [][(CoreVars' # CoreVars) => Proven']_vars

C4_StatusChangesOnce ==
    [][/\ \A id \in DOMAIN remittances :
            /\ id \in DOMAIN remittances'
            /\ LET r == remittances[id]
                   r2 == remittances'[id]
               IN IF r.status = "Pending"
                  THEN \/ r2 = r
                       \/ /\ r2 = [r EXCEPT !.status = "Completed"]
                          /\ last'.op \in {"confirm_payout", "batch_settle"}
                       \/ /\ r2 = [r EXCEPT !.status = "Cancelled"]
                          /\ last'.op = "cancel_remittance"
                  ELSE r2 = r
       /\ \A id \in (DOMAIN remittances') \ (DOMAIN remittances) :
            /\ remittances'[id].status = "Pending"
            /\ last'.op = "create_remittance"]_vars

\* One record has been completed and another cancelled.
C4_Witness ==
    \E a, b \in DOMAIN remittances :
        /\ remittances[a].status = "Completed"
        /\ remittances[b].status = "Cancelled"

\* ------------------------------------------------------------------ C5
\* C5: the events of every batch_settle call on a non-empty batch are one
\* batch.started event, first, and exactly one of batch.failed and
\* batch.completed, last, whichever way the call ends.
C5_BatchEventBracket ==
    (last.op = "batch_settle" /\ Len(last.args[1]) > 0) =>
        LET n == Len(last.events) IN
        /\ n >= 2
        /\ Topics[1] = "batch.start"
        /\ Topics[n] \in {"batch.failed", "batch.complete"}
        /\ Cardinality({i \in 1 .. n : Topics[i] = "batch.start"}) = 1
        /\ Cardinality({i \in 1 .. n :
              Topics[i] \in {"batch.failed", "batch.complete"}}) = 1

\* ------------------------------------------------------------------ C6
\* C6: a batch_settle on N entries that all validate returns N success
\* results in caller-supplied order, leaves every named remittance
\* Completed with its marker set, increases the fee pool by exactly the sum
\* of the fees of the remittances settled, and emits one remittance.completed
\* event per entry in order and then one batch.completed event with
\* total_count = N, success_count = N and total_payout the sum of
\* amount - fee over the entries.
C6_BatchSettlesAll ==
    [][(last'.op = "batch_settle" /\ last'.err = "Ok") =>
          LET ids == EntryIds(last'.args[1])
              n == Len(ids)
              payout == [i \in 1 .. n |->
                           remittances[ids[i]].amount - remittances[ids[i]].fee]
              fees == [id \in DOMAIN remittances |-> remittances[id].fee]
          IN
          /\ \A i \in 1 .. n : ids[i] \in DOMAIN remittances
          /\ last'.ret = [i \in 1 .. n |->
                            BatchSettleResult(ids[i], TRUE, payout[i])]
          /\ \A i \in 1 .. n :
                /\ remittances'[ids[i]].status = "Completed"
                /\ ids[i] \in settlement_hash'
          /\ Unwrap(accumulated_fees') =
                Unwrap(accumulated_fees)
                   + SetSum(fees, EntryIdSet(last'.args[1]))
          /\ Len(last'.events) = n + 2
          /\ \A i \in 1 .. n :
                /\ last'.events[i + 1].topic = "remit.complete"
                /\ last'.events[i + 1].remittance_id = ids[i]
                /\ last'.events[i + 1].amount = payout[i]
          /\ last'.events[n + 2].topic = "batch.complete"
          /\ last'.events[n + 2].total_count = n
          /\ last'.events[n + 2].success_count = n
          /\ last'.events[n + 2].total_payout = SeqSum(payout)]_vars

\* ------------------------------------------------------------------ C7
\* C7: a successful confirm_payout(id) acts on a Pending remittance with the
\* authorization of the agent on the record, and in one step transfers
\* exactly amount - fee from custody to that agent, adds exactly fee to the
\* fee pool, sets the marker of id and sets the status to Completed; a
\* confirm_payout that fails a precondition (missing record, status not
\* Pending, marker present, expired, missing authorization) does not
\* succeed, and one that does not succeed applies none of these effects.
C7_ConfirmPayoutEffects ==
    [][last'.op = "confirm_payout" =>
          LET id == last'.args[1]
              now == timestamp
          IN
          /\ (\/ id \notin DOMAIN remittances
              \/ remittances[id].status # "Pending"
              \/ id \in settlement_hash
              \/ (remittances[id].expiry # None
                    /\ now > remittances[id].expiry[1])
              \/ last'.caller # remittances[id].agent)
                => last'.err # "Ok"
          /\ IF last'.err = "Ok"
             THEN LET r == remittances[id] IN
                  /\ last'.transfers =
                        << Transfer(CONTRACT, r.agent, r.amount - r.fee) >>
                  /\ custody' = custody - (r.amount - r.fee)
                  /\ accumulated_fees' = Some(Unwrap(accumulated_fees) + r.fee)
                  /\ settlement_hash' = settlement_hash \cup {id}
                  /\ remittances' =
                        [remittances EXCEPT ![id].status = "Completed"]
             ELSE CoreVars' = CoreVars /\ last'.transfers = << >>]_vars

\* A confirm_payout has succeeded and paid a positive amount.
C7_Witness ==
    /\ last.op = "confirm_payout"
    /\ last.err = "Ok"
    /\ last.transfers[1].amount > 0
    /\ Unwrap(accumulated_fees) > 0

\* ------------------------------------------------------------------ C8
\* What confirm_payout does with the expiry of a Pending remittance when
\* the agent on the record authorizes the call.
C8_ConfirmPart ==
    last'.op = "confirm_payout" =>
        LET id == last'.args[1] IN
        (/\ id \in DOMAIN remittances
         /\ remittances[id].status = "Pending"
         /\ last'.caller = remittances[id].agent)
            => IF remittances[id].expiry # None
                  /\ timestamp > remittances[id].expiry[1]
               THEN /\ last'.err = "SettlementExpired"
                    /\ CoreVars' = CoreVars
               ELSE last'.err # "SettlementExpired"

\* Entry i of the batch names a Pending remittance whose expiry has passed.
ExpiredEntry(ids, i) ==
    /\ ids[i] \in DOMAIN remittances
    /\ remittances[ids[i]].status = "Pending"
    /\ remittances[ids[i]].expiry # None
    /\ timestamp > remittances[ids[i]].expiry[1]

\* Entry i of the batch names a Pending remittance that has not expired.
LiveEntry(ids, i) ==
    /\ ids[i] \in DOMAIN remittances
    /\ remittances[ids[i]].status = "Pending"
    /\ ~(remittances[ids[i]].expiry # None
           /\ timestamp > remittances[ids[i]].expiry[1])

\* C8 (as stated): for a Pending remittance with expiry T, confirm_payout
\* at a timestamp > T fails with SettlementExpired and leaves the status
\* Pending, and a batch_settle containing it fails validation with the
\* SettlementExpired reason; at a timestamp <= T, or with no expiry, the
\* expiry check does not reject the call.
C8_ExpiryAsStated ==
    [][/\ C8_ConfirmPart
       /\ last'.op = "batch_settle" =>
             LET ids == EntryIds(last'.args[1]) IN
             (\E i \in 1 .. Len(ids) : ExpiredEntry(ids, i))
                => /\ last'.err = "BatchValidationFailed"
                   /\ last'.events[2].reason = REASON_EXPIRED]_vars

\* C8 (amended): as stated, except that the batch.failed event of a batch
\* containing the expired remittance carries its index, its id and the
\* SettlementExpired reason when every entry before it validates; the batch
\* fails validation in every case.
C8_ExpiryFirstFailure ==
    [][/\ C8_ConfirmPart
       /\ last'.op = "batch_settle" =>
             LET ids == EntryIds(last'.args[1]) IN
             /\ (\E i \in 1 .. Len(ids) : ExpiredEntry(ids, i))
                   => /\ last'.err = "BatchValidationFailed"
                      /\ CoreVars' = CoreVars
             /\ \A i \in 1 .. Len(ids) :
                   (/\ ExpiredEntry(ids, i)
                    /\ \A j \in 1 .. (i - 1) : LiveEntry(ids, j))
                      => /\ last'.events[2].topic = "batch.failed"
                         /\ last'.events[2].failed_at_index = i - 1
                         /\ last'.events[2].remittance_id = ids[i]
                         /\ last'.events[2].reason = REASON_EXPIRED
             /\ (last'.err = "BatchValidationFailed"
                   /\ last'.events[2].reason = REASON_EXPIRED)
                   => ExpiredEntry(ids, last'.events[2].failed_at_index + 1)
      ]_vars

\* A batch whose first entry validated failed for its second entry, a
\* Pending remittance whose expiry had passed, which is still Pending.
C8_Witness ==
    /\ last.op = "batch_settle"
    /\ last.err = "BatchValidationFailed"
    /\ last.events[2].reason = REASON_EXPIRED
    /\ last.events[2].failed_at_index = 1
    /\ remittances[last.events[2].remittance_id].status = "Pending"
    /\ timestamp > remittances[last.events[2].remittance_id].expiry[1]

\* ------------------------------------------------------------------ C9
\* C9: a successful cancel_remittance(id) acts on a Pending remittance with
\* its sender's authorization, refunds exactly the full amount to the
\* sender, sets the status to Cancelled and leaves the fee pool and the
\* marker of id untouched; on a Completed or Cancelled remittance it fails
\* with InvalidStatus and transfers nothing; so each remittance is refunded
\* at most once and never both refunded and paid out.
C9_CancelRefundsOnce ==
    [][/\ last'.op = "cancel_remittance" =>
             LET id == last'.args[1] IN
             /\ last'.err = "Ok" =>
                   /\ id \in DOMAIN remittances
                   /\ remittances[id].status = "Pending"
                   /\ last'.caller = remittances[id].sender
                   /\ last'.transfers =
                         << Transfer(CONTRACT, remittances[id].sender,
                                     remittances[id].amount) >>
                   /\ custody' = custody - remittances[id].amount
                   /\ remittances' =
                         [remittances EXCEPT ![id].status = "Cancelled"]
                   /\ accumulated_fees' = accumulated_fees
                   /\ settlement_hash' = settlement_hash
             /\ (/\ id \in DOMAIN remittances
                 /\ remittances[id].status # "Pending"
                 /\ last'.caller = remittances[id].sender)
                   => /\ last'.err = "InvalidStatus"
                      /\ last'.transfers = << >>
                      /\ CoreVars' = CoreVars
             /\ last'.err # "Ok" =>
                   (CoreVars' = CoreVars /\ last'.transfers = << >>)
       /\ \A id \in DOMAIN history' :
             /\ history'[id].refunds <= 1
             /\ ~(history'[id].refunds >= 1 /\ history'[id].payouts >= 1)
             /\ (history'[id].refunds = 1) =
                   (remittances'[id].status = "Cancelled")]_vars

\* A second cancel_remittance of a refunded remittance was rejected.
C9_Witness ==
    /\ last.op = "cancel_remittance"
    /\ last.err = "InvalidStatus"
    /\ last.caller = "alice"
    /\ history[last.args[1]].refunds = 1

\* ----------------------------------------------------------------- C10
\* C10: every stored remittance has amount > 0 and 0 <= fee <= amount with
\* fee = floor(amount * fee_bps / 10000) for the fee rate fee_bps in
\* [0, 10000] in force when it was created, so amount - fee >= 0;
\* create_remittance fails with Overflow, storing nothing, exactly when
\* amount * fee_bps exceeds the signed 128-bit range.
C10_FeeWithinAmount ==
    [][/\ \A id \in DOMAIN remittances' :
             LET r == remittances'[id]
                 bps == history'[id].fee_bps
             IN /\ r.amount > 0
                /\ 0 <= r.fee /\ r.fee <= r.amount
                /\ bps \in 0 .. BPS_DENOM
                /\ r.fee = (r.amount * bps) \div BPS_DENOM
                /\ r.amount - r.fee >= 0
       /\ \A id \in (DOMAIN remittances') \ (DOMAIN remittances) :
             history'[id].fee_bps = Unwrap(platform_fee_bps)
       /\ last'.op = "create_remittance" =>
             LET sender == last'.args[1]
                 agent == last'.args[2]
                 amount == last'.args[3]
             IN /\ (/\ last'.caller = sender
                    /\ amount > 0
                    /\ agent \in agent_registered
                    /\ amount * Unwrap(platform_fee_bps) > I128_MAX)
                      => last'.err = "Overflow"
                /\ last'.err = "Overflow" =>
                      /\ amount * Unwrap(platform_fee_bps) > I128_MAX
                      /\ CoreVars' = CoreVars
                      /\ last'.transfers = << >>]_vars

\* A remittance with a positive fee is stored, and a create_remittance
\* under a rate that overflows the product has failed with Overflow.
C10_Witness ==
    /\ last.op = "create_remittance"
    /\ last.err = "Overflow"
    /\ \E id \in DOMAIN remittances :
          remittances[id].fee > 0 /\ remittances[id].fee < remittances[id].amount

\* ----------------------------------------------------------------- C11
\* The fee of a record at the rate that was in force when it was created.
FeeAtCreation(id) == (remittances[id].amount * history[id].fee_bps) \div BPS_DENOM

\* C11: a successful update_fee changes only the platform fee rate (the
\* fee, amount and status of every existing remittance are unchanged); a
\* later confirm_payout or batch_settle of such a remittance pays and
\* credits with the fee stored at its creation; and a remittance created
\* after the update is charged at the new rate.
C11_UpdateFeeOnlyRate ==
    [][/\ (last'.op = "update_fee" /\ last'.err = "Ok") =>
             /\ platform_fee_bps' = Some(last'.args[1])
             /\ remittances' = remittances
             /\ << admin, usdc_token, remittance_counter, accumulated_fees,
                   agent_registered, settlement_hash, custody, history >>'
                  = << admin, usdc_token, remittance_counter,
                       accumulated_fees, agent_registered, settlement_hash,
                       custody, history >>
       /\ \A id \in DOMAIN remittances :
             /\ remittances[id].fee = FeeAtCreation(id)
             /\ remittances'[id].fee = remittances[id].fee
       /\ (last'.op = "confirm_payout" /\ last'.err = "Ok") =>
             LET id == last'.args[1] IN
             /\ Unwrap(accumulated_fees') =
                   Unwrap(accumulated_fees) + FeeAtCreation(id)
             /\ last'.transfers[1].amount =
                   remittances[id].amount - FeeAtCreation(id)
       /\ (last'.op = "batch_settle" /\ last'.err = "Ok") =>
             LET ids == EntryIds(last'.args[1]) IN
             /\ Unwrap(accumulated_fees') =
                   Unwrap(accumulated_fees)
                      + SeqSum([i \in 1 .. Len(ids) |-> FeeAtCreation(ids[i])])
             /\ \A i \in 1 .. Len(ids) :
                   last'.transfers[i].amount =
                      remittances[ids[i]].amount - FeeAtCreation(ids[i])
       /\ (last'.op = "create_remittance" /\ last'.err = "Ok") =>
             LET id == Unwrap(last'.ret) IN
             /\ history'[id].fee_bps = Unwrap(platform_fee_bps')
             /\ remittances'[id].fee =
                   (last'.args[3] * Unwrap(platform_fee_bps')) \div BPS_DENOM
      ]_vars

\* A remittance created before a change of rate has been settled after it
\* with the fee of the old rate, and a remittance created after the change
\* carries the different fee of the new rate.
C11_Witness ==
    /\ last.op \in {"confirm_payout", "batch_settle"}
    /\ last.err = "Ok"
    /\ \E a, b \in DOMAIN remittances :
          /\ a < b
          /\ remittances[a].status = "Completed"
          /\ history[a].fee_bps # Unwrap(platform_fee_bps)
          /\ history[b].fee_bps = Unwrap(platform_fee_bps)
          /\ remittances[a].fee # remittances[b].fee
          /\ last.transfers[1].amount = remittances[a].amount - remittances[a].fee

\* ----------------------------------------------------------------- C12
\* The value of the fee pool (nothing before initialize stores it).
Pool == IF IsSome(accumulated_fees) THEN Unwrap(accumulated_fees) ELSE 0

\* C12: the fee pool is changed only by a successful settlement, which adds
\* exactly the fee of each remittance it settles, and by a successful
\* withdraw_fees, which transfers exactly the pool's prior value to the
\* recipient and resets the pool to zero; an admin's withdraw_fees while
\* the pool is <= 0 fails with NoFeesToWithdraw and transfers nothing; and
\* create_remittance, cancel_remittance, update_fee, register_agent and
\* remove_agent never change the pool.
C12_FeePoolChanges ==
    [][/\ Pool' # Pool =>
             /\ last'.op \in {"confirm_payout", "batch_settle", "withdraw_fees"}
             /\ last'.err = "Ok"
       /\ (last'.op = "confirm_payout" /\ last'.err = "Ok") =>
             Pool' = Pool + remittances[last'.args[1]].fee
       /\ (last'.op = "batch_settle" /\ last'.err = "Ok") =>
             Pool' = Pool
                + SetSum([id \in DOMAIN remittances |-> remittances[id].fee],
                         EntryIdSet(last'.args[1]))
       /\ (last'.op = "withdraw_fees" /\ last'.err = "Ok") =>
             /\ Pool > 0
             /\ last'.transfers = << Transfer(CONTRACT, last'.args[1], Pool) >>
             /\ custody' = custody - Pool
             /\ accumulated_fees' = Some(0)
       /\ (/\ last'.op = "withdraw_fees"
           /\ IsSome(admin) /\ last'.caller = Unwrap(admin)
           /\ Pool <= 0) =>
             /\ last'.err = "NoFeesToWithdraw"
             /\ last'.transfers = << >>
             /\ CoreVars' = CoreVars
       /\ last'.op \in {"create_remittance", "cancel_remittance", "update_fee",
                        "register_agent", "remove_agent"} =>
             accumulated_fees' = accumulated_fees
      ]_vars

\* ----------------------------------------------------------------- C13
\* C13: the remittance counter starts at 0 and is written only by a
\* successful create_remittance, which increases it by exactly 1 and
\* returns the new value as the id; it never decreases, so the id returned
\* was never returned before; the id field of a stored record equals its
\* key; and a failed create_remittance consumes no id.
C13_CounterGivesFreshIds ==
    [][/\ remittance_counter' # remittance_counter =>
             \/ /\ last'.op = "initialize" /\ last'.err = "Ok"
                /\ remittance_counter = None
                /\ remittance_counter' = Some(0)
             \/ /\ last'.op = "create_remittance" /\ last'.err = "Ok"
                /\ Unwrap(remittance_counter') = Unwrap(remittance_counter) + 1
       /\ (last'.op = "create_remittance" /\ last'.err = "Ok") =>
             LET id == Unwrap(remittance_counter') IN
             /\ id = Unwrap(remittance_counter) + 1
             /\ last'.ret = Some(id)
             /\ id \notin DOMAIN remittances
             /\ DOMAIN remittances' = (DOMAIN remittances) \cup {id}
             /\ remittances'[id].id = id
       /\ (last'.op = "create_remittance" /\ last'.err # "Ok") =>
             /\ remittance_counter' = remittance_counter
             /\ DOMAIN remittances' = DOMAIN remittances
             /\ last'.ret = None
       /\ IsSome(remittance_counter') =>
             /\ DOMAIN remittances' = 1 .. Unwrap(remittance_counter')
             /\ \A id \in DOMAIN remittances' : remittances'[id].id = id
      ]_vars

\* A second create_remittance has succeeded and returned the id 2; both
\* records are stored under their ids.
C13_Witness ==
    /\ last.op = "create_remittance"
    /\ last.err = "Ok"
    /\ last.ret = Some(2)
    /\ DOMAIN remittances = {1, 2}
    /\ remittances[1].id = 1 /\ remittances[2].id = 2

\* ----------------------------------------------------------------- C14
\* C14: initialize succeeds at most once: on an initialized contract it
\* fails with AlreadyInitialized, whatever its arguments, and leaves the
\* admin, the token, the fee rate, the counter and the fee pool unchanged;
\* with fee_bps > 10000 on an uninitialized contract it fails with
\* InvalidFeeBps and leaves the contract uninitialized; and after a
\* successful initialize no operation changes the admin.
C14_InitializeOnce ==
    [][/\ last'.op = "initialize" =>
             IF IsSome(admin)
             THEN /\ last'.err = "AlreadyInitialized"
                  /\ CoreVars' = CoreVars
             ELSE IF last'.args[3] > BPS_DENOM
             THEN /\ last'.err = "InvalidFeeBps"
                  /\ CoreVars' = CoreVars
                  /\ admin' = None
             ELSE /\ last'.err = "Ok"
                  /\ admin' = Some(last'.args[1])
                  /\ usdc_token' = Some(last'.args[2])
                  /\ platform_fee_bps' = Some(last'.args[3])
                  /\ remittance_counter' = Some(0)
                  /\ accumulated_fees' = Some(0)
       /\ IsSome(admin) => admin' = admin
      ]_vars

\* An initialize naming another admin and token was rejected on a contract
\* that holds a remittance and collected fees, which it still holds.
C14_Witness ==
    /\ last.op = "initialize"
    /\ last.err = "AlreadyInitialized"
    /\ last.args[1] # Unwrap(admin)
    /\ last.args[2] # Unwrap(usdc_token)
    /\ remittance_counter = Some(1)
    /\ Unwrap(accumulated_fees) > 0

\* ----------------------------------------------------------------- C15
\* C15: a create_remittance authorized by its sender with amount <= 0 fails
\* with InvalidAmount, whether or not the agent is registered; with
\* amount > 0 and an agent that is not registered now (never registered,
\* or registered and removed since) it fails with AgentNotRegistered; in
\* both cases nothing is moved into custody, no record is stored and the
\* counter is unchanged.
C15_CreateRejectsBadArguments ==
    [][(last'.op = "create_remittance" /\ last'.caller = last'.args[1]) =>
          LET agent == last'.args[2]
              amount == last'.args[3]
          IN
          /\ amount <= 0 =>
                /\ last'.err = "InvalidAmount"
                /\ last'.transfers = << >>
                /\ CoreVars' = CoreVars
          /\ (amount > 0 /\ agent \notin agent_registered) =>
                /\ last'.err = "AgentNotRegistered"
                /\ last'.transfers = << >>
                /\ CoreVars' = CoreVars
          /\ last'.err = "InvalidAmount" => amount <= 0
          /\ last'.err = "AgentNotRegistered" =>
                (amount > 0 /\ agent \notin agent_registered)
      ]_vars

\* A create_remittance naming an agent that took a remittance before and
\* has been removed since was rejected, and nothing was stored for it.
C15_Witness ==
    /\ last.op = "create_remittance"
    /\ last.err = "AgentNotRegistered"
    /\ last.args[3] > 0
    /\ remittance_counter = Some(1)
    /\ remittances[1].agent = last.args[2]
    /\ DOMAIN remittances = {1}
    /\ remittances[1].status = "Pending"
    /\ custody = remittances[1].amount

\* ----------------------------------------------------------------- C16
\* C16: batch_settle called with an empty entry list fails with BatchEmpty,
\* emits no event at all (no batch.started either) and changes no state;
\* and BatchEmpty is the result of no other batch_settle call.
C16_EmptyBatchRejected ==
    [][last'.op = "batch_settle" =>
          IF Len(last'.args[1]) = 0
          THEN /\ last'.err = "BatchEmpty"
               /\ last'.events = << >>
               /\ last'.transfers = << >>
               /\ CoreVars' = CoreVars
          ELSE /\ last'.err # "BatchEmpty"
               /\ Len(last'.events) >= 1
      ]_vars

\* An empty batch was rejected while a Pending remittance was in custody.
C16_Witness ==
    /\ last.op = "batch_settle"
    /\ last.args[1] = << >>
    /\ last.err = "BatchEmpty"
    /\ last.events = << >>
    /\ \E id \in DOMAIN remittances : remittances[id].status = "Pending"

\* ----------------------------------------------------------------- C17
\* The reason code of the first check the remittance id fails, in the
\* order: the record exists, its status is Pending, it has no settlement
\* marker, it has not expired, its agent is well formed, amount - fee does
\* not overflow; 0 when it passes them all.
FirstFailedCheck(id) ==
    IF id \notin DOMAIN remittances THEN REASON_NOT_FOUND
    ELSE IF remittances[id].status # "Pending" THEN REASON_INVALID_STATUS
    ELSE IF id \in settlement_hash THEN REASON_DUPLICATE
    ELSE IF remittances[id].expiry # None
              /\ timestamp > remittances[id].expiry[1]
    THEN REASON_EXPIRED
    ELSE IF remittances[id].agent \notin Address THEN REASON_INVALID_ADDRESS
    ELSE IF ~InI128(remittances[id].amount - remittances[id].fee)
    THEN REASON_OVERFLOW
    ELSE 0

\* The positions (from 1) of the entries that fail a check.
FailingEntries(ids) == {i \in 1 .. Len(ids) : FirstFailedCheck(ids[i]) # 0}

\* C17: a batch_settle call fails validation exactly when some entry fails
\* a check; it then emits exactly one batch.failed event, which carries the
\* smallest index (from 0, in caller-supplied order) of an entry that fails
\* any check, the remittance id at that index and the reason code of the
\* first check that entry fails; the entries after it are not examined:
\* the event and the result are the same whatever those entries are.
C17_FirstFailureReported ==
    [][(last'.op = "batch_settle" /\ IsSome(usdc_token)) =>
          LET settlements == last'.args[1]
              ids == EntryIds(settlements)
              failing == FailingEntries(ids)
              failed == {k \in 1 .. Len(last'.events) :
                           last'.events[k].topic = "batch.failed"}
          IN
          IF failing # {}
          THEN LET i == CHOOSE k \in failing : \A j \in failing : k <= j IN
               /\ last'.err = "BatchValidationFailed"
               /\ Len(last'.events) = 2
               /\ failed = {2}
               /\ last'.events[2].failed_at_index = i - 1
               /\ last'.events[2].remittance_id = ids[i]
               /\ last'.events[2].reason = FirstFailedCheck(ids[i])
               /\ CoreVars' = CoreVars
          ELSE /\ last'.err # "BatchValidationFailed"
               /\ failed = {}
      ]_vars

\* A batch failed at its second entry, a remittance that is both Cancelled
\* and past its expiry, with the reason of the status check.
C17_Witness ==
    /\ last.op = "batch_settle"
    /\ last.err = "BatchValidationFailed"
    /\ last.events[2].failed_at_index = 1
    /\ last.events[2].reason = REASON_INVALID_STATUS
    /\ LET r == remittances[last.events[2].remittance_id] IN
          /\ r.status = "Cancelled"
          /\ r.expiry # None
          /\ timestamp > r.expiry[1]

\* ----------------------------------------------------------------- C18
\* The markers and the Completed remittances agree.
MarkerIffCompleted(rs, markers) ==
    /\ markers \subseteq DOMAIN rs
    /\ \A id \in DOMAIN rs : (id \in markers) <=> (rs[id].status = "Completed")

\* C18: in every reachable state the settlement marker of an id is present
\* if and only if the remittance's status is Completed (absent for every
\* Pending and every Cancelled remittance); it is set in the step that
\* makes the status Completed; and once present it is never removed.
C18_MarkerIffCompleted ==
    [][/\ MarkerIffCompleted(remittances, settlement_hash)
       /\ MarkerIffCompleted(remittances', settlement_hash')
       /\ settlement_hash \subseteq settlement_hash'
       /\ \A id \in settlement_hash' \ settlement_hash :
             /\ remittances[id].status = "Pending"
             /\ remittances'[id].status = "Completed"
             /\ last'.op \in {"confirm_payout", "batch_settle"}
             /\ last'.err = "Ok"
      ]_vars

\* A confirm_payout has just made one remittance Completed and set its
\* marker, beside a Cancelled remittance that has none.
C18_Witness ==
    /\ last.op = "confirm_payout"
    /\ last.err = "Ok"
    /\ remittances[last.args[1]].status = "Completed"
    /\ last.args[1] \in settlement_hash
    /\ \E b \in DOMAIN remittances :
          remittances[b].status = "Cancelled" /\ b \notin settlement_hash

\* ----------------------------------------------------------------- C19
\* The sum of amount over the Pending remittances.
PendingTotal ==
    SetSum([id \in DOMAIN remittances |-> remittances[id].amount],
           {id \in DOMAIN remittances : remittances[id].status = "Pending"})

\* C19: in every reachable state the value held in custody (moved in by
\* create_remittance, moved out by payouts, refunds and fee withdrawals)
\* equals the sum of amount over the Pending remittances plus the fee pool.
C19_ValueConserved == custody = PendingTotal + Pool

\* ----------------------------------------------------------------- C20
\* C20: in every reachable state, a cancel_remittance of a Pending
\* remittance authorized by its sender succeeds and refunds the full
\* amount, whether or not its expiry has passed or its agent has been
\* removed, and whatever was settled, cancelled or withdrawn before:
\* custody always covers the refund.
C20_PendingCanBeCancelled ==
    [][(/\ last'.op = "cancel_remittance"
        /\ last'.args[1] \in DOMAIN remittances
        /\ remittances[last'.args[1]].status = "Pending"
        /\ last'.caller = remittances[last'.args[1]].sender) =>
          LET r == remittances[last'.args[1]] IN
          /\ custody >= r.amount
          /\ last'.err = "Ok"
          /\ last'.transfers = << Transfer(CONTRACT, r.sender, r.amount) >>
          /\ remittances'[r.id].status = "Cancelled"
      ]_vars

\* ----------------------------------------------------------------- C21
\* C21: a successful update_fee(new) emits one fee.updated event whose
\* old_fee_bps is the platform fee rate stored immediately before the call
\* and whose new_fee_bps is new; an update_fee rejected with InvalidFeeBps
\* (fee_bps > 10000) emits no event and leaves the stored rate unchanged.
C21_FeeUpdatedEvent ==
    [][last'.op = "update_fee" =>
          /\ last'.err = "Ok" =>
                /\ Len(last'.events) = 1
                /\ last'.events[1].topic = "fee.updated"
                /\ last'.events[1].old_fee_bps = Unwrap(platform_fee_bps)
                /\ last'.events[1].new_fee_bps = last'.args[1]
                /\ platform_fee_bps' = Some(last'.args[1])
          /\ (/\ IsSome(admin) /\ last'.caller = Unwrap(admin)
              /\ last'.args[1] > BPS_DENOM) =>
                last'.err = "InvalidFeeBps"
          /\ last'.err = "InvalidFeeBps" =>
                /\ last'.args[1] > BPS_DENOM
                /\ last'.events = << >>
                /\ platform_fee_bps' = platform_fee_bps
                /\ CoreVars' = CoreVars
      ]_vars

====
